---- MODULE Spec2Model ----
(***************************************************************************)
(* CDSHeapVerifier (src/hotspot/share/cds/cdsHeapVerifier.cpp).            *)
(*                                                                         *)
(* verify() constructs a verifier, whose constructor walks every loaded    *)
(* class with do_klass and fills _table with the static object fields that *)
(* may be reinitialised at runtime; it then iterates the archived object   *)
(* cache with do_entry, which reports every archived object found in       *)
(* _table together with a trace to its snapshot root (trace_to_root); the  *)
(* destructor prints the summary.                                          *)
(***************************************************************************)
EXTENDS Integers, Sequences, FiniteSets, TLC

VARIABLES classes, cache, pc, kidx, _table, visited, cont,
          _archived_objs, _problems, log, summary

vars == <<classes, cache, pc, kidx, _table, visited, cont,
          _archived_objs, _problems, log, summary>>

-----------------------------------------------------------------------------
(* Bounds of the explored inputs.                                          *)

MaxClasses == 2
MaxStaticFields == 2
MaxCache == 2
MaxTraceCache == 4

-----------------------------------------------------------------------------
(* The heap: object identities, their classes and their references.        *)

NULL == "NULL"

Oops == {"str", "mirror", "color", "sub", "arr", "node"}

\* A fixed enumeration of the identities, used to list a set in some order.
OopOrder == <<"str", "mirror", "color", "sub", "arr", "node">>

\* One field as JavaFieldStream presents it: fd.name(), fd.field_type(),
\* access_flags().is_static(), fd.offset() and the oop read at that offset.
Fld(n, t, st, off, v) ==
  [name |-> n, type |-> t, static |-> st, offset |-> off, value |-> v]

\* The objects.  fields: the fields the object's own class declares, in
\* JavaFieldStream order; inherited: the instance fields declared by its
\* super classes (part of the object, not of JavaFieldStream(ik));
\* elems: the elements of an object array.
Heap ==
  [o \in Oops |->
    CASE o = "str" ->
           [klass |-> "java/lang/String", fields |-> <<>>, inherited |-> <<>>,
            elems |-> <<>>]
      [] o = "mirror" ->
           [klass |-> "java/lang/Class", fields |-> <<>>, inherited |-> <<>>,
            elems |-> <<>>]
      [] o = "color" ->
           [klass |-> "Color", fields |-> <<>>, inherited |-> <<>>,
            elems |-> <<>>]
      [] o = "sub" ->
           [klass |-> "Sub",
            fields |-> << Fld("count", "T_INT", FALSE, 12, NULL),
                          Fld("CACHE", "T_OBJECT", TRUE, 112, "color"),
                          Fld("next", "T_OBJECT", FALSE, 16, "color"),
                          Fld("elems", "T_ARRAY", FALSE, 20, "arr"),
                          Fld("other", "T_OBJECT", FALSE, 24, "color") >>,
            inherited |-> << Fld("owner", "T_OBJECT", FALSE, 8, "node") >>,
            elems |-> <<>>]
      [] o = "arr" ->
           [klass |-> "[Ljava/lang/Object;", fields |-> <<>>,
            inherited |-> <<>>, elems |-> <<NULL, "str", "str">>]
      [] o = "node" ->
           [klass |-> "Node", fields |-> <<>>, inherited |-> <<>>,
            elems |-> <<>>] ]

klass(o) == Heap[o].klass

is_instance_klass(k) == k # "[Ljava/lang/Object;"

java_lang_String_is_instance(o) == klass(o) = "java/lang/String"

java_lang_Class_is_instance(o) == klass(o) = "java/lang/Class"

\* Klass::has_archived_enum_objs(): Color is the enum class with archived
\* instances.
has_archived_enum_objs(k) == k = "Color"

-----------------------------------------------------------------------------
(* The inputs: the loaded classes and the archived object cache.           *)

\* A static or instance field as do_klass sees it through JavaFieldStream
\* and fieldDescriptor; value is the oop mirror->obj_field(fd.offset())
\* reads (NULL for a field that holds no oop).
TObjectValues == {NULL, "str", "mirror", "color", "sub", "arr"}

FieldKinds ==
  { [type |-> "T_OBJECT", static |-> TRUE, final |-> FALSE,
     has_initial_value |-> FALSE, value |-> v] : v \in TObjectValues }
  \cup
  { [type |-> "T_OBJECT", static |-> TRUE, final |-> TRUE,
     has_initial_value |-> TRUE, value |-> "str"] }
  \cup
  { [type |-> "T_OBJECT", static |-> TRUE, final |-> TRUE,
     has_initial_value |-> FALSE, value |-> v] : v \in {"str", "mirror"} }
  \cup
  { [type |-> "T_ARRAY", static |-> TRUE, final |-> FALSE,
     has_initial_value |-> FALSE, value |-> "arr"],
    [type |-> "T_INT", static |-> TRUE, final |-> FALSE,
     has_initial_value |-> FALSE, value |-> NULL],
    [type |-> "T_OBJECT", static |-> FALSE, final |-> FALSE,
     has_initial_value |-> FALSE, value |-> NULL] }

\* The fields of the trace-oriented inputs: plain static object fields that
\* may hold any object of the heap.
TraceFieldKinds ==
  { [type |-> "T_OBJECT", static |-> TRUE, final |-> FALSE,
     has_initial_value |-> FALSE, value |-> v] : v \in Oops }

FieldNames == {"bootLayer", "archivedFoo"}

Named(kinds) ==
  { [name |-> n, type |-> k.type, static |-> k.static, final |-> k.final,
     has_initial_value |-> k.has_initial_value, value |-> k.value] :
      n \in FieldNames, k \in kinds }

\* The declared fields of one class: n fields with distinct names.
FieldSeqs(kinds, n) ==
  { fs \in [1..n -> Named(kinds)] :
      \A i, j \in 1..n : i < j => fs[i].name # fs[j].name }

\* The loaded classes: name, whether the Klass is an InstanceKlass (an array
\* class is not, and declares no field) and whether
\* HeapShared::is_subgraph_root_class holds of the class.
ClassPool ==
  { [name |-> "java/lang/System", instance |-> TRUE, isRootClass |-> FALSE],
    [name |-> "Foo", instance |-> TRUE, isRootClass |-> FALSE],
    [name |-> "java/lang/Integer$IntegerCache", instance |-> TRUE,
     isRootClass |-> TRUE],
    [name |-> "[Ljava/lang/Object;", instance |-> FALSE,
     isRootClass |-> FALSE] }

ClassesWith(pool, kinds, n) ==
  { [name |-> c.name, instance |-> c.instance, isRootClass |-> c.isRootClass,
     fields |-> fs] :
      c \in { d \in pool : d.instance \/ n = 0 }, fs \in FieldSeqs(kinds, n) }

\* The class registries of k classes with distinct names that declare at
\* most m fields in all, in the order classes_do enumerates them.
RECURSIVE Registries(_, _, _, _)
Registries(pool, kinds, k, m) ==
  IF k = 0 THEN { <<>> }
  ELSE UNION { UNION { { Append(r, c) :
                           r \in { q \in Registries(pool, kinds, k - 1, m - n) :
                                     \A i \in 1..Len(q) : q[i].name # c.name } } :
                       c \in ClassesWith(pool, kinds, n) } :
               n \in 0..m }

AllRegistries(pool, kinds, maxk, m) ==
  UNION { Registries(pool, kinds, k, m) : k \in 1..maxk }

\* parent holds a reference to child in one of its instance fields (its own
\* or inherited) or array elements.
References(parent, child) ==
  \/ \E i \in 1..Len(Heap[parent].fields) :
       /\ ~Heap[parent].fields[i].static
       /\ Heap[parent].fields[i].type \in {"T_OBJECT", "T_ARRAY"}
       /\ Heap[parent].fields[i].value = child
  \/ \E i \in 1..Len(Heap[parent].inherited) :
       Heap[parent].inherited[i].value = child
  \/ \E i \in 1..Len(Heap[parent].elems) : Heap[parent].elems[i] = child

\* The archived object caches of at most max entries: every entry records
\* the referrer through which the object was reached, or NULL for a root;
\* a referrer is itself archived and does refer to the object.
Snapshots(max) ==
  UNION { { [o \in D |-> [_referrer |-> r[o]]] :
              r \in { q \in [D -> Oops \cup {NULL}] :
                        \A o \in D : q[o] = NULL
                                     \/ (q[o] \in D /\ References(q[o], o)) } } :
          D \in { E \in SUBSET Oops : Cardinality(E) <= max } }

-----------------------------------------------------------------------------
(* CDSHeapVerifier::CDSHeapVerifier: the exclusion table.                  *)

\* The ADD_EXCL entries: the class name, then the excluded field names.
_exclusions ==
  << <<"java/lang/ClassLoader", "scl">>,
     <<"java/lang/invoke/InvokerBytecodeGenerator", "DONTINLINE_SIG",
       "FORCEINLINE_SIG", "HIDDEN_SIG", "INJECTEDPROFILE_SIG",
       "LF_COMPILED_SIG">>,
     <<"java/lang/Module", "ALL_UNNAMED_MODULE", "ALL_UNNAMED_MODULE_SET",
       "EVERYONE_MODULE", "EVERYONE_SET">>,
     <<"java/lang/System", "bootLayer">>,
     <<"java/lang/VersionProps", "VENDOR_URL_BUG", "VENDOR_URL_VM_BUG",
       "VENDOR_VERSION">>,
     <<"java/net/URL$DefaultFactory", "PREFIX">>,
     <<"java/util/HashSet", "PRESENT">>,
     <<"jdk/internal/loader/BuiltinClassLoader", "packageToModule">>,
     <<"jdk/internal/loader/ClassLoaders", "BOOT_LOADER", "APP_LOADER",
       "PLATFORM_LOADER">>,
     <<"jdk/internal/loader/URLClassPath", "JAVA_VERSION">>,
     <<"jdk/internal/module/Builder", "cachedVersion">>,
     <<"jdk/internal/module/ModuleLoaderMap$Mapper", "APP_CLASSLOADER",
       "APP_LOADER_INDEX", "PLATFORM_CLASSLOADER", "PLATFORM_LOADER_INDEX">>,
     <<"jdk/internal/module/ServicesCatalog", "CLV">>,
     <<"jdk/internal/reflect/Reflection", "methodFilterMap">>,
     <<"jdk/internal/util/StaticProperty", "FILE_ENCODING">> >>

\* find_exclusion(ik): the field names registered for the class of that
\* name; the empty list stands for the NULL of a class with no entry.
find_exclusion(ik) ==
  LET hits == { i \in 1..Len(_exclusions) : _exclusions[i][1] = ik.name }
  IN IF hits = {} THEN <<>>
     ELSE Tail(_exclusions[CHOOSE i \in hits : \A j \in hits : i <= j])

is_subgraph_root_class(ik) == ik.isRootClass

-----------------------------------------------------------------------------
(* _table: oop -> StaticFieldInfo.                                         *)

EmptyTable == [o \in {} |-> NULL]

\* put replaces the value of a key that is already present.
put(table, key, info) ==
  [o \in DOMAIN table \cup {key} |-> IF o = key THEN info ELSE table[o]]

contains(table, key) == key \in DOMAIN table

get(table, key) == table[key]

-----------------------------------------------------------------------------
(* CDSHeapVerifier::do_klass.                                              *)

\* Variant: the loop starts one entry too far.
is_excluded_skip_first(exclusions, fd) ==
  \E i \in 2..Len(exclusions) : fd.name = exclusions[i]

\* The for loop over the exclusions of the class.
is_excluded(exclusions, fd) ==
  \E i \in 1..Len(exclusions) : fd.name = exclusions[i]

\* Variant: array-typed fields are read as well, as trace_to_root does.
is_static_object_or_array_field(fd) ==
  fd.static /\ fd.type \in {"T_OBJECT", "T_ARRAY"}

\* The fields the scan reads: static, of field type T_OBJECT.
is_static_object_field(fd) ==
  fd.static /\ fd.type = "T_OBJECT"

\* Variant: the mirror test does not ask for a final field.
is_known_safe_any_mirror(fd, static_obj_field) ==
  \/ /\ fd.final
     /\ java_lang_String_is_instance(static_obj_field)
     /\ fd.has_initial_value
  \/ java_lang_Class_is_instance(static_obj_field)
  \/ has_archived_enum_objs(klass(static_obj_field))

\* Variant: the archived-enum test is missing.
is_known_safe_no_enum(fd, static_obj_field) ==
  \/ /\ fd.final
     /\ java_lang_String_is_instance(static_obj_field)
     /\ fd.has_initial_value
  \/ fd.final /\ java_lang_Class_is_instance(static_obj_field)

\* The three value tests that end with 'continue'.
is_known_safe(fd, static_obj_field) ==
  \/ /\ fd.final
     /\ java_lang_String_is_instance(static_obj_field)
     /\ fd.has_initial_value
  \/ fd.final /\ java_lang_Class_is_instance(static_obj_field)
  \/ has_archived_enum_objs(klass(static_obj_field))

\* Variant: an object already in the table keeps its first origin.
do_field_keep_first(table, ik, exclusions, fd) ==
  IF is_static_object_field(fd)
  THEN LET static_obj_field == fd.value
       IN IF static_obj_field # NULL
          THEN IF is_excluded(exclusions, fd) THEN table
               ELSE IF is_known_safe(fd, static_obj_field) THEN table
               ELSE IF contains(table, static_obj_field) THEN table
               ELSE put(table, static_obj_field,
                        [_holder |-> ik.name, _name |-> fd.name])
          ELSE table
  ELSE table

\* The body of the field loop for one field.
do_field(table, ik, exclusions, fd) ==
  IF is_static_object_field(fd)
  THEN LET static_obj_field == fd.value
       IN IF static_obj_field # NULL
          THEN IF is_excluded(exclusions, fd) THEN table
               ELSE IF is_known_safe(fd, static_obj_field) THEN table
               ELSE put(table, static_obj_field,
                        [_holder |-> ik.name, _name |-> fd.name])
          ELSE table
  ELSE table

RECURSIVE do_fields(_, _, _, _)
do_fields(table, ik, exclusions, i) ==
  IF i > Len(ik.fields) THEN table
  ELSE do_fields(do_field(table, ik, exclusions, ik.fields[i]),
                 ik, exclusions, i + 1)

do_klass(table, k) ==
  IF is_instance_klass(k.name)
  THEN LET exclusions == find_exclusion(k)
       IN IF is_subgraph_root_class(k) THEN table
          ELSE do_fields(table, k, exclusions, 1)
  ELSE table

-----------------------------------------------------------------------------
(* CDSHeapVerifier::trace_to_root.                                         *)

NoMember == [kind |-> "none", name |-> "", pos |-> 0 - 1]

\* One printed line: "[level] address klass" and what follows it.
ObjLine(level, obj, member) ==
  [level |-> level, kind |-> "obj", obj |-> obj, klass |-> klass(obj),
   member |-> member]

\* "[level] (shared string table)".
TableLine(level) ==
  [level |-> level, kind |-> "shared string table", obj |-> NULL,
   klass |-> "", member |-> NoMember]

\* The instance fields JavaFieldStream(ik) yields that hold orig_field.
matching_fields(orig_obj, orig_field) ==
  { i \in 1..Len(Heap[orig_obj].fields) :
      /\ ~Heap[orig_obj].fields[i].static
      /\ Heap[orig_obj].fields[i].type \in {"T_OBJECT", "T_ARRAY"}
      /\ Heap[orig_obj].fields[i].value = orig_field }

\* The array indices (from 0) that hold orig_field.
matching_indices(orig_obj, orig_field) ==
  { i \in 0..(Len(Heap[orig_obj].elems) - 1) :
      Heap[orig_obj].elems[i + 1] = orig_field }

Least(S) == CHOOSE i \in S : \A j \in S : i <= j

\* What is printed after the class name: "::name (offset = n)" for the first
\* field that holds orig_field, " @[i]" for the first such array index,
\* nothing for a NULL orig_field or when the loop finds no match.
print_member(orig_obj, orig_field) ==
  IF orig_field = NULL THEN NoMember
  ELSE IF is_instance_klass(klass(orig_obj))
  THEN LET hits == matching_fields(orig_obj, orig_field)
       IN IF hits = {} THEN NoMember
          ELSE [kind |-> "field",
                name |-> Heap[orig_obj].fields[Least(hits)].name,
                pos |-> Heap[orig_obj].fields[Least(hits)].offset]
  ELSE LET hits == matching_indices(orig_obj, orig_field)
       IN IF hits = {} THEN NoMember
          ELSE [kind |-> "index", name |-> "", pos |-> Least(hits)]

\* Variant: the level of the referrer is returned unchanged.
RECURSIVE trace_to_root_same_level(_, _, _)
trace_to_root_same_level(orig_obj, orig_field, p) ==
  LET up == IF p._referrer # NULL
            THEN LET r == trace_to_root_same_level(p._referrer, orig_obj,
                                                   cache[p._referrer])
                 IN [level |-> r.level, out |-> r.out]
            ELSE IF java_lang_String_is_instance(orig_obj)
            THEN [level |-> 1, out |-> << TableLine(0) >>]
            ELSE [level |-> 0, out |-> << >>]
  IN [level |-> up.level,
      out |-> Append(up.out,
                     ObjLine(up.level, orig_obj,
                             print_member(orig_obj, orig_field)))]

\* Returns the level of orig_obj and the lines printed, root first.
RECURSIVE trace_to_root(_, _, _)
trace_to_root(orig_obj, orig_field, p) ==
  LET up == IF p._referrer # NULL
            THEN LET r == trace_to_root(p._referrer, orig_obj,
                                        cache[p._referrer])
                 IN [level |-> r.level + 1, out |-> r.out]
            ELSE IF java_lang_String_is_instance(orig_obj)
            THEN [level |-> 1, out |-> << TableLine(0) >>]
            ELSE [level |-> 0, out |-> << >>]
  IN [level |-> up.level,
      out |-> Append(up.out,
                     ObjLine(up.level, orig_obj,
                             print_member(orig_obj, orig_field)))]

-----------------------------------------------------------------------------
(* CDSHeapVerifier::do_entry and ~CDSHeapVerifier.                         *)

\* Variant: the iteration is stopped at the first problem.
do_entry_stop_at_problem(st, orig_obj, value) ==
  IF contains(st._table, orig_obj)
  THEN LET info == get(st._table, orig_obj)
       IN [_table |-> st._table,
           _archived_objs |-> st._archived_objs + 1,
           _problems |-> st._problems + 1,
           log |-> Append(st.log,
                          [field |-> info, value |-> orig_obj,
                           trace |-> trace_to_root(orig_obj, NULL, value).out]),
           ret |-> FALSE]
  ELSE [_table |-> st._table,
        _archived_objs |-> st._archived_objs + 1,
        _problems |-> st._problems,
        log |-> st.log,
        ret |-> TRUE]

\* Variant: only the first problem of a run is reported.
do_entry_first_problem_only(st, orig_obj, value) ==
  IF contains(st._table, orig_obj) /\ st._problems = 0
  THEN LET info == get(st._table, orig_obj)
       IN [_table |-> st._table,
           _archived_objs |-> st._archived_objs + 1,
           _problems |-> st._problems + 1,
           log |-> Append(st.log,
                          [field |-> info, value |-> orig_obj,
                           trace |-> trace_to_root(orig_obj, NULL, value).out]),
           ret |-> TRUE]
  ELSE [_table |-> st._table,
        _archived_objs |-> st._archived_objs + 1,
        _problems |-> st._problems,
        log |-> st.log,
        ret |-> TRUE]

\* st: the verifier's counters and what it has logged so far.  The result
\* carries the new counters and log, and ret, the value do_entry returns
\* to iterate (true: keep on iterating).
do_entry(st, orig_obj, value) ==
  IF contains(st._table, orig_obj)
  THEN LET info == get(st._table, orig_obj)
       IN [_table |-> st._table,
           _archived_objs |-> st._archived_objs + 1,
           _problems |-> st._problems + 1,
           log |-> Append(st.log,
                          [field |-> info, value |-> orig_obj,
                           trace |-> trace_to_root(orig_obj, NULL, value).out]),
           ret |-> TRUE]
  ELSE [_table |-> st._table,
        _archived_objs |-> st._archived_objs + 1,
        _problems |-> st._problems,
        log |-> st.log,
        ret |-> TRUE]

\* Variant: the warning is logged unconditionally.
destructor_summary_always(archived_objs, problems) ==
  << [scanned |-> archived_objs, found |-> problems] >>

\* The summary the destructor logs: none, or the two numbers of the warning.
destructor_summary(archived_objs, problems) ==
  IF problems > 0
  THEN << [scanned |-> archived_objs, found |-> problems] >>
  ELSE << >>

-----------------------------------------------------------------------------
(* verify(): the constructor's classes_do, iterate, the destructor.        *)

InitVerifier ==
  /\ pc = "ctor"
  /\ kidx = 1
  /\ _table = EmptyTable
  /\ visited = {}
  /\ cont = TRUE
  /\ _archived_objs = 0
  /\ _problems = 0
  /\ log = << >>
  /\ summary = << >>

Init ==
  /\ classes \in AllRegistries(ClassPool, FieldKinds, MaxClasses, MaxStaticFields)
  /\ cache \in Snapshots(MaxCache)
  /\ InitVerifier

\* The inputs that exercise the trace: one class of plain static object
\* fields, and every referrer tree of at most MaxTraceCache objects.
InitTrace ==
  /\ classes \in AllRegistries({ c \in ClassPool : c.name = "Foo" },
                               TraceFieldKinds, 1, MaxStaticFields)
  /\ cache \in Snapshots(MaxTraceCache)
  /\ InitVerifier

\* ClassLoaderDataGraph::classes_do(this), one class at a time.
ClassesDo ==
  /\ pc = "ctor"
  /\ kidx <= Len(classes)
  /\ _table' = do_klass(_table, classes[kidx])
  /\ kidx' = kidx + 1
  /\ pc' = IF kidx = Len(classes) THEN "iterate" ELSE "ctor"
  /\ UNCHANGED <<classes, cache, visited, cont, _archived_objs, _problems,
                 log, summary>>

\* archived_object_cache()->iterate(&verf): the next entry, in an order the
\* cache chooses, until every entry is visited or do_entry returns false.
Iterate ==
  /\ pc = "iterate"
  /\ cont
  /\ \E o \in DOMAIN cache \ visited :
       LET r == do_entry([_table |-> _table,
                          _archived_objs |-> _archived_objs,
                          _problems |-> _problems, log |-> log],
                         o, cache[o])
       IN /\ _archived_objs' = r._archived_objs
          /\ _problems' = r._problems
          /\ log' = r.log
          /\ cont' = r.ret
          /\ visited' = visited \cup {o}
  /\ UNCHANGED <<classes, cache, pc, kidx, _table, summary>>

\* verify() returns: verf goes out of scope.
Destructor ==
  /\ pc = "iterate"
  /\ (~cont \/ DOMAIN cache \ visited = {})
  /\ summary' = destructor_summary(_archived_objs, _problems)
  /\ pc' = "done"
  /\ UNCHANGED <<classes, cache, kidx, _table, visited, cont,
                 _archived_objs, _problems, log>>

Next == ClassesDo \/ Iterate \/ Destructor

Spec == Init /\ [][Next]_vars

SpecTrace == InitTrace /\ [][Next]_vars

\* The pass runs to completion: it is single-threaded and never suspended.
FairSpecTrace == InitTrace /\ [][Next]_vars /\ WF_vars(Next)

-----------------------------------------------------------------------------
(* Vocabulary of the properties, stated on the inputs and the output.      *)

\* The declared fields of the registry, as <<class index, field index>>.
Slots ==
  UNION { { <<ci, fi>> : fi \in 1..Len(classes[ci].fields) } :
          ci \in 1..Len(classes) }

ClassOf(s) == classes[s[1]]

FieldOf(s) == classes[s[1]].fields[s[2]]

OriginOf(s) == [_holder |-> ClassOf(s).name, _name |-> FieldOf(s).name]

\* s is scanned before t: class enumeration order, then declaration order.
ScannedBefore(s, t) == s[1] < t[1] \/ (s[1] = t[1] /\ s[2] < t[2])

Exempted(s) ==
  \E i \in 1..Len(_exclusions) :
    /\ _exclusions[i][1] = ClassOf(s).name
    /\ \E j \in 2..Len(_exclusions[i]) : _exclusions[i][j] = FieldOf(s).name

FinalStringLiteral(s) ==
  /\ FieldOf(s).final
  /\ FieldOf(s).has_initial_value
  /\ FieldOf(s).value # NULL
  /\ Heap[FieldOf(s).value].klass = "java/lang/String"

FinalMirror(s) ==
  /\ FieldOf(s).final
  /\ FieldOf(s).value # NULL
  /\ Heap[FieldOf(s).value].klass = "java/lang/Class"

ValueOfArchivedEnum(s) ==
  /\ FieldOf(s).value # NULL
  /\ Heap[FieldOf(s).value].klass = "Color"

\* The static fields the completeness property speaks of.
Qualifying(s) ==
  /\ ~ClassOf(s).isRootClass
  /\ FieldOf(s).static
  /\ FieldOf(s).type = "T_OBJECT"
  /\ ~Exempted(s)
  /\ FieldOf(s).value # NULL
  /\ ~FinalStringLiteral(s)
  /\ ~FinalMirror(s)
  /\ ~ValueOfArchivedEnum(s)

\* The reports of the run that name the field s / that are about object o.
ReportsNaming(s) == { i \in 1..Len(log) : log[i].field = OriginOf(s) }

ReportsAbout(o) == { i \in 1..Len(log) : log[i].value = o }

\* The last scanned of the qualifying fields that hold o.
Holders(o) == { s \in Slots : Qualifying(s) /\ FieldOf(s).value = o }

LastHolder(o) ==
  CHOOSE s \in Holders(o) : \A t \in Holders(o) : t = s \/ ScannedBefore(t, s)

-----------------------------------------------------------------------------
(* C1: completeness.                                                       *)

\* C1 as stated: when the run is over, every qualifying static field (class
\* not a root class, field type T_OBJECT, not exempted, value non-null and
\* in the archived object cache, none of the value tests applies) is named
\* by exactly one report, also when another qualifying field holds the same
\* object.
C1_Completeness ==
  pc = "done" =>
    \A s \in Slots :
      (Qualifying(s) /\ FieldOf(s).value \in DOMAIN cache)
        => Cardinality(ReportsNaming(s)) = 1

\* C1 amended: a qualifying static field whose value is archived is named by
\* exactly one report provided no qualifying field scanned after it holds
\* the same object; a qualifying field that is followed by such a field is
\* named by no report, and its object is reported once, under the last
\* scanned of the qualifying fields that hold it.
C1_CompletenessLastHolder ==
  pc = "done" =>
    \A s \in Slots :
      (Qualifying(s) /\ FieldOf(s).value \in DOMAIN cache)
        => /\ Cardinality(ReportsAbout(FieldOf(s).value)) = 1
           /\ \A i \in ReportsAbout(FieldOf(s).value) :
                log[i].field = OriginOf(LastHolder(FieldOf(s).value))
           /\ IF s = LastHolder(FieldOf(s).value)
              THEN /\ Cardinality(ReportsNaming(s)) = 1
                   /\ ReportsNaming(s) = ReportsAbout(FieldOf(s).value)
              ELSE ReportsNaming(s) = {}

\* A finished run in which two qualifying fields hold the same archived
\* object: the later one is named by the one report, the earlier by none.
C1_Witness ==
  /\ pc = "done"
  /\ \E s, t \in Slots :
       /\ ScannedBefore(s, t)
       /\ Qualifying(s) /\ Qualifying(t)
       /\ FieldOf(s).value = FieldOf(t).value
       /\ FieldOf(t).value \in DOMAIN cache
       /\ Cardinality(ReportsNaming(t)) = 1
       /\ ReportsNaming(s) = {}

-----------------------------------------------------------------------------
(* C2: no report from a root class, an exempted field or a null field.     *)

\* C2: a static field of a root class, a field whose name is exempted for
\* its class and a field whose value is null are at no time the origin of an
\* entry of the table, and no report names them; a root class is the holder
\* of no entry of the table.
C2_NoFalsePositiveClassField ==
  /\ \A s \in Slots :
       (FieldOf(s).static
        /\ (ClassOf(s).isRootClass \/ Exempted(s) \/ FieldOf(s).value = NULL))
         => /\ \A o \in DOMAIN _table : _table[o] # OriginOf(s)
            /\ ReportsNaming(s) = {}
  /\ \A ci \in 1..Len(classes) :
       classes[ci].isRootClass
         => \A o \in DOMAIN _table : _table[o]._holder # classes[ci].name

\* A finished run over a class with an exempted field and a root class with
\* a static object field, both holding archived objects.
C2_Witness ==
  /\ pc = "done"
  /\ \E s, t \in Slots :
       /\ Exempted(s) /\ ~ClassOf(s).isRootClass
       /\ FieldOf(s).static /\ FieldOf(s).type = "T_OBJECT"
       /\ FieldOf(s).value \in DOMAIN cache
       /\ ~FinalStringLiteral(s) /\ ~FinalMirror(s) /\ ~ValueOfArchivedEnum(s)
       /\ ClassOf(t).isRootClass
       /\ FieldOf(t).static /\ FieldOf(t).type = "T_OBJECT"
       /\ FieldOf(t).value \in DOMAIN cache

-----------------------------------------------------------------------------
(* C3: no report from the value tests.                                     *)

\* C3: a static field that is final, holds a string and has an initial
\* value, or is final and holds a class mirror, or holds an object whose
\* class has archived enum instances, is at no time the origin of an entry
\* of the table and is named by no report, archived value or not; an object
\* whose class has archived enum instances is never reported.
C3_NoFalsePositiveValue ==
  /\ \A s \in Slots :
       (FieldOf(s).static
        /\ (FinalStringLiteral(s) \/ FinalMirror(s) \/ ValueOfArchivedEnum(s)))
         => /\ \A o \in DOMAIN _table : _table[o] # OriginOf(s)
            /\ ReportsNaming(s) = {}
  /\ \A i \in 1..Len(log) : Heap[log[i].value].klass # "Color"

\* A finished run over non-root classes with two unexempted static object
\* fields whose values are archived: a final string with an initial value,
\* and an object of the enum class with archived instances.
C3_Witness ==
  /\ pc = "done"
  /\ \E s, t \in Slots :
       /\ ~ClassOf(s).isRootClass /\ ~Exempted(s)
       /\ FieldOf(s).static /\ FieldOf(s).type = "T_OBJECT"
       /\ FinalStringLiteral(s)
       /\ FieldOf(s).value \in DOMAIN cache
       /\ ~ClassOf(t).isRootClass /\ ~Exempted(t)
       /\ FieldOf(t).static /\ FieldOf(t).type = "T_OBJECT"
       /\ ValueOfArchivedEnum(t)
       /\ FieldOf(t).value \in DOMAIN cache

-----------------------------------------------------------------------------
(* C4: the summary.                                                        *)

\* C4 as stated: every finished run has logged the summary, whatever the
\* number of problems.
C4_SummaryAlways ==
  pc = "done" =>
    summary = << [scanned |-> Cardinality(DOMAIN cache), found |-> Len(log)] >>

\* C4 amended: the summary is logged when the run ends and only if at least
\* one problem was found; it then carries the number of archived objects
\* scanned and the number of problems reported.  A run that finds no problem
\* logs no summary.
C4_SummaryIffProblems ==
  /\ pc # "done" => summary = << >>
  /\ pc = "done" =>
       IF Len(log) > 0
       THEN summary = << [scanned |-> Cardinality(DOMAIN cache),
                          found |-> Len(log)] >>
       ELSE summary = << >>

\* A finished run that scanned an archived object, found no problem and
\* logged no summary.
C4_Witness ==
  /\ pc = "done"
  /\ Cardinality(DOMAIN cache) > 0
  /\ _problems = 0
  /\ summary = << >>

-----------------------------------------------------------------------------
(* C8: two fields that hold the same object.                               *)

\* C8: when two or more qualifying static fields hold the same object, the
\* table built by the constructor maps the object to the last scanned of
\* them; if the object is archived, the finished run reports it exactly once
\* and under that origin.
C8_LastScannedWins ==
  \A o \in Oops :
    Cardinality(Holders(o)) >= 2
      => /\ pc # "ctor"
            => (o \in DOMAIN _table /\ _table[o] = OriginOf(LastHolder(o)))
         /\ (pc = "done" /\ o \in DOMAIN cache)
            => /\ Cardinality(ReportsAbout(o)) = 1
               /\ \A i \in ReportsAbout(o) :
                    log[i].field = OriginOf(LastHolder(o))

\* A finished run in which two qualifying fields of different classes hold
\* the same archived object.
C8_Witness ==
  /\ pc = "done"
  /\ \E o \in DOMAIN cache :
       \E s, t \in Holders(o) : s[1] < t[1] /\ ReportsAbout(o) # {}

-----------------------------------------------------------------------------
(* C10: static fields of array type.                                       *)

\* C10: a static field whose field type is T_ARRAY is the origin of no entry
\* of the table, and an archived object that static fields hold only in
\* fields of type T_ARRAY is never reported.
C10_ArrayFieldsNotIndexed ==
  /\ \A s \in Slots :
       (FieldOf(s).static /\ FieldOf(s).type = "T_ARRAY")
         => \A o \in DOMAIN _table : _table[o] # OriginOf(s)
  /\ \A o \in DOMAIN cache :
       (/\ \E s \in Slots : /\ FieldOf(s).static
                            /\ FieldOf(s).type = "T_ARRAY"
                            /\ FieldOf(s).value = o
        /\ \A s \in Slots : (FieldOf(s).static /\ FieldOf(s).value = o)
                              => FieldOf(s).type = "T_ARRAY")
         => ReportsAbout(o) = {}

\* A finished run over a non-root class whose unexempted T_ARRAY static
\* field holds an archived array that no other static field holds.
C10_Witness ==
  /\ pc = "done"
  /\ \E s \in Slots :
       /\ ~ClassOf(s).isRootClass /\ ~Exempted(s)
       /\ FieldOf(s).static /\ FieldOf(s).type = "T_ARRAY"
       /\ FieldOf(s).value \in DOMAIN cache
       /\ \A t \in Slots : t # s => FieldOf(t).value # FieldOf(s).value

-----------------------------------------------------------------------------
(* Vocabulary of the trace properties.                                     *)

\* The number of referrer links between an archived object and its root.
RECURSIVE Links(_)
Links(o) == IF cache[o]._referrer = NULL THEN 0
            ELSE Links(cache[o]._referrer) + 1

RECURSIVE RootOf(_)
RootOf(o) == IF cache[o]._referrer = NULL THEN o
             ELSE RootOf(cache[o]._referrer)

\* parent's field of that name (its own or inherited) holds child.
FieldHolds(parent, name, child) ==
  \/ \E i \in 1..Len(Heap[parent].fields) :
       /\ ~Heap[parent].fields[i].static
       /\ Heap[parent].fields[i].name = name
       /\ Heap[parent].fields[i].value = child
  \/ \E i \in 1..Len(Heap[parent].inherited) :
       /\ Heap[parent].inherited[i].name = name
       /\ Heap[parent].inherited[i].value = child

\* The line of parent names a field or an index of parent that holds child.
NamesReferenceTo(line, child) ==
  \/ /\ line.member.kind = "field"
     /\ is_instance_klass(Heap[line.obj].klass)
     /\ FieldHolds(line.obj, line.member.name, child)
  \/ /\ line.member.kind = "index"
     /\ ~is_instance_klass(Heap[line.obj].klass)
     /\ line.member.pos + 1 \in 1..Len(Heap[line.obj].elems)
     /\ Heap[line.obj].elems[line.member.pos + 1] = child

-----------------------------------------------------------------------------
(* C5: the whole cache is checked.                                         *)

\* C5: every run of verify() terminates, and when it has terminated every
\* entry of the archived object cache was visited, the scanned-object
\* counter is the number of entries of the cache, and the problem counter is
\* the number of entries whose object is a key of the table, each of them
\* reported once.
C5_NeverAbortsEarly ==
  /\ <>(pc = "done")
  /\ [](pc = "done" =>
          /\ visited = DOMAIN cache
          /\ _archived_objs = Cardinality(DOMAIN cache)
          /\ _problems = Cardinality(DOMAIN cache \cap DOMAIN _table)
          /\ Len(log) = _problems
          /\ \A o \in DOMAIN cache \cap DOMAIN _table :
               Cardinality(ReportsAbout(o)) = 1)

\* A finished run that found two problems in a cache of more entries.
C5_Witness ==
  /\ pc = "done"
  /\ _problems = 2
  /\ Cardinality(DOMAIN cache) > 2
  /\ log[1].value # log[2].value
  /\ visited = DOMAIN cache

-----------------------------------------------------------------------------
(* C6: the trace.                                                          *)

\* C6: in every reported trace the first line is a snapshot root (an object
\* whose entry has no referrer) or the shared string table, the last line is
\* the reported object, and of two consecutive object lines the first names
\* a field or an array index of its object that holds the object of the
\* second.
C6_TraceCorrect ==
  \A i \in 1..Len(log) :
    LET t == log[i].trace
    IN /\ Len(t) >= 1
       /\ \/ t[1].kind = "shared string table"
          \/ (t[1].kind = "obj" /\ cache[t[1].obj]._referrer = NULL)
       /\ t[Len(t)].kind = "obj" /\ t[Len(t)].obj = log[i].value
       /\ \A j \in 1..(Len(t) - 1) :
            t[j].kind = "obj" => NamesReferenceTo(t[j], t[j + 1].obj)

-----------------------------------------------------------------------------
(* C7: the iteration order.                                                *)

\* do_entry applied to the entries in a given order.
RECURSIVE iterate_in_order(_, _)
iterate_in_order(st, order) ==
  IF order = << >> THEN st
  ELSE LET r == do_entry(st, Head(order), cache[Head(order)])
       IN IF r.ret THEN iterate_in_order(r, Tail(order)) ELSE r

\* The run that visits the cache in the order of OopOrder.
ReferenceRun ==
  iterate_in_order([_table |-> _table, _archived_objs |-> 0,
                    _problems |-> 0, log |-> << >>, ret |-> TRUE],
                   SelectSeq(OopOrder, LAMBDA o : o \in DOMAIN cache))

Range(f) == { f[i] : i \in DOMAIN f }

\* C7: whatever the order in which the cache hands out its entries, the
\* finished run has the reports (objects, origins, traces) and the two
\* counters of the run that visits them in the order of OopOrder.
C7_OrderIndependent ==
  pc = "done" =>
    /\ Range(log) = Range(ReferenceRun.log)
    /\ Len(log) = Len(ReferenceRun.log)
    /\ _archived_objs = ReferenceRun._archived_objs
    /\ _problems = ReferenceRun._problems

\* A finished run that reported two problems in the other order.
C7_Witness ==
  /\ pc = "done"
  /\ Len(log) = 2
  /\ log # ReferenceRun.log

-----------------------------------------------------------------------------
(* C9: the levels of a trace.                                              *)

\* C9 as stated: every object of a trace is printed with the number of
\* referrer links between it and its root as its level (the root with 0),
\* and the trace of a reported root has one line.
C9_DepthFromZero ==
  \A i \in 1..Len(log) :
    /\ \A j \in 1..Len(log[i].trace) :
         log[i].trace[j].kind = "obj"
           => log[i].trace[j].level = Links(log[i].trace[j].obj)
    /\ cache[log[i].value]._referrer = NULL => Len(log[i].trace) = 1

StringRoot(o) == Heap[RootOf(o)].klass = "java/lang/String"

\* C9 amended: when the root of the trace is not a string, every object is
\* printed with the number of referrer links between it and the root as its
\* level and the trace of a reported root has one line; when the root is a
\* string, the line of the shared string table comes first with level 0,
\* every object is printed with that number plus one, and the trace of a
\* reported root has two lines.  In both cases the levels of the lines
\* count up by one from 0.
C9_DepthWithStringTable ==
  \A i \in 1..Len(log) :
    LET t == log[i].trace
        off == IF StringRoot(log[i].value) THEN 1 ELSE 0
    IN /\ Len(t) = Links(log[i].value) + 1 + off
       /\ \A j \in 1..Len(t) : t[j].level = j - 1
       /\ \A j \in 1..Len(t) :
            IF j = 1 /\ off = 1 THEN t[j].kind = "shared string table"
            ELSE t[j].kind = "obj" /\ t[j].level = Links(t[j].obj) + off
       /\ t[Len(t)].obj = log[i].value

\* A finished run that reported an object below its root, and a root that
\* is a string.
C9_Witness ==
  /\ pc = "done"
  /\ \E i, j \in 1..Len(log) :
       /\ Links(log[i].value) = 1
       /\ Len(log[i].trace) = 2
       /\ cache[log[j].value]._referrer = NULL
       /\ Heap[log[j].value].klass = "java/lang/String"
       /\ Len(log[j].trace) = 2

====
